---- MODULE Spec2Model ----
(***************************************************************************)
(* Attack monitor of the NewFeeds dashboard: severity filter, numbering,   *)
(* selection shared by the list (AttackMonitor / AttackCard) and the map   *)
(* (AttackMap / FlyToSelected).                                            *)
(*                                                                         *)
(* One action is one user interaction: the click handler, the re-render    *)
(* React does when the handler changed state, the ref callbacks of the     *)
(* commit and the FlyToSelected effect of that commit.  The state is the   *)
(* one after the map module has loaded.                                    *)
(***************************************************************************)
EXTENDS Integers, Sequences, FiniteSets, TLC

\* ---------------------------------------------------------------- values

\* JavaScript null / undefined of a string-valued cell
NULL == "null"

\* an absent optional value (lat?, lng?, classification?), a present one
None == <<>>
Some(v) == <<v>>

\* AttackClassification.severity
Severities == {"major", "high", "medium", "low"}

\* the severity tabs, in the order they are rendered
SeverityFilters == <<"all", "major", "high", "medium", "low">>

SeverityFilterSet == {SeverityFilters[i] : i \in DOMAIN SeverityFilters}

\* MapContainer center / zoom props, threshold of FlyToSelected
InitialCenter == <<29, 45>>
InitialZoom == 5
FlyZoomThreshold == 7

\* ---------------------------------------------------------------- bounds

\* longest incident list
MaxIncidents == 2

\* highest zoom level the user's zoom control is taken to
MaxZoom == 8

\* longest threat history
MaxHistory == 3

\* highest of the small threat scores
MaxScore == 3

\* the zoom levels the model lets the user's zoom control reach: from the
\* zoom the map starts at up to MaxZoom
ZoomLevels == InitialZoom..MaxZoom

\* ---------------------------------------------------------------- inputs

Classification(sev, att) == Some([severity |-> sev, is_attack |-> att])

\* Incident records attacks.json may hold, by identifier: optional
\* classification, optional latitude and longitude (both present or both
\* absent).  An article is represented by its identifier, its fields are
\* read here.
Catalogue ==
  "a" :> [classification |-> Classification("major", TRUE),
          lat |-> Some(0), lng |-> Some(40)] @@
  "b" :> [classification |-> Classification("low", TRUE),
          lat |-> None, lng |-> None] @@
  "c" :> [classification |-> Classification("major", TRUE),
          lat |-> Some(10), lng |-> Some(50)] @@
  "d" :> [classification |-> None,
          lat |-> Some(20), lng |-> Some(60)] @@
  "e" :> [classification |-> Classification("high", FALSE),
          lat |-> Some(30), lng |-> Some(70)]

AllIds == DOMAIN Catalogue

\* incident lists with unique identifiers, in any order
IncidentLists ==
  { s \in UNION { [1..n -> AllIds] : n \in 0..MaxIncidents } :
      \A i, j \in DOMAIN s : i # j => s[i] # s[j] }

\* ------------------------------------------------------ derived sequences

classification(a) == Catalogue[a].classification
lat(a) == Catalogue[a].lat
lng(a) == Catalogue[a].lng

\* a.classification?.severity
severityOf(a) ==
  IF classification(a) = None THEN "undefined" ELSE classification(a)[1].severity

\* a.classification?.is_attack, as a truth value
isAttack(a) ==
  IF classification(a) = None THEN FALSE ELSE classification(a)[1].is_attack

\* a.lat != null && a.lng != null
hasCoordinates(a) == lat(a) # None /\ lng(a) # None

\* variant: a severity filter keeps the articles that have no classification
filtered_keepsUnclassified(articles, f) ==
  IF f = "all"
    THEN articles
    ELSE SelectSeq(articles, LAMBDA a : classification(a) = None \/ severityOf(a) = f)

\* variant: a severity filter shows its incidents in reverse order
filtered_reversed(articles, f) ==
  IF f = "all"
    THEN articles
    ELSE LET kept == SelectSeq(articles, LAMBDA a : severityOf(a) = f)
         IN [p \in 1..Len(kept) |-> kept[Len(kept) + 1 - p]]

\* severityFilter === "all" ? attackArticles
\*   : attackArticles.filter((a) => a.classification?.severity === severityFilter)
filtered(articles, f) ==
  IF f = "all"
    THEN articles
    ELSE SelectSeq(articles, LAMBDA a : severityOf(a) = f)

\* variant: the index is the array position, counted from 0
numberedAttacks_zeroBased(filt) ==
  [p \in 1..Len(filt) |-> [attack |-> filt[p], index |-> p - 1]]

\* filtered.map((a, i) => ({ attack: a, index: i + 1 })), i counted from 0
numberedAttacks(filt) ==
  [p \in 1..Len(filt) |-> [attack |-> filt[p], index |-> (p - 1) + 1]]

\* variant: the subset with coordinates is numbered on its own
mappedAttacks_renumbered(numbered) ==
  LET s == SelectSeq(numbered, LAMBDA na : hasCoordinates(na.attack))
  IN [p \in 1..Len(s) |-> [attack |-> s[p].attack, index |-> p]]

\* numberedAttacks.filter((na) => na.attack.lat != null && na.attack.lng != null)
mappedAttacks(numbered) ==
  SelectSeq(numbered, LAMBDA na : hasCoordinates(na.attack))

\* variant: the map keeps every entry that has coordinates
mapped_anyClassification(numbered) ==
  SelectSeq(numbered, LAMBDA na : hasCoordinates(na.attack))

\* AttackMap.mapped
mapped(numbered) ==
  SelectSeq(numbered, LAMBDA na : hasCoordinates(na.attack) /\ isAttack(na.attack))

Numbered(articles, f) == numberedAttacks(filtered(articles, f))

\* the markers of the map under filter f
Markers(articles, f) == mapped(mappedAttacks(Numbered(articles, f)))

\* the cards a numbered list shows: AttackCard renders nothing for an
\* article without classification
cardsOf(numbered) ==
  SelectSeq(numbered, LAMBDA na : classification(na.attack) # None)

IdsOf(numbered) == { numbered[i].attack : i \in DOMAIN numbered }

\* isSelected prop of the card of id: na.attack.id === selectedAttackId
cardIsSelected(id, selectedId) == id = selectedId

\* variant: every marker is drawn enlarged while anything is selected
markerIsSelected_anySelection(id, selectedId) == selectedId # NULL

\* isSelected of the marker of id: attack.id === selectedId
markerIsSelected(id, selectedId) == id = selectedId

\* severityColor of AttackMap: the keys are critical, high, medium, low
severityColor ==
  "critical" :> "#ef4444" @@ "high" :> "#f97316" @@
  "medium" :> "#eab308" @@ "low" :> "#22c55e"

\* severityColor[severity] ?? "#6366f1"
FallbackColor == "#6366f1"

\* createNumberedIcon: the colour, the size and the label of the icon
createNumberedIcon(num, severity, isSelected) ==
  [color |-> IF severity \in DOMAIN severityColor
               THEN severityColor[severity] ELSE FallbackColor,
   size |-> IF isSelected THEN 36 ELSE 28,
   label |-> num]

\* the icon of the marker of entry na:
\* createNumberedIcon(index ?? 0, attack.classification?.severity ?? "low", isSelected)
markerIcon(na, selectedId) ==
  createNumberedIcon(na.index,
                     IF classification(na.attack) = None THEN "low" ELSE severityOf(na.attack),
                     markerIsSelected(na.attack, selectedId))

\* variant: the selected incident is moved to the head of the list before
\* it is numbered
Render_selectedFirst(articles, f, sel) ==
  LET filt == filtered(articles, f)
      pinned == SelectSeq(filt, LAMBDA a : a = sel) \o
                SelectSeq(filt, LAMBDA a : a # sel)
      num == numberedAttacks(pinned)
      mk == mapped(mappedAttacks(num))
  IN [numberedAttacks |-> num,
      mapped |-> mk,
      highlighted |-> { id \in IdsOf(cardsOf(num)) : cardIsSelected(id, sel) },
      enlarged |-> { id \in IdsOf(mk) : markerIsSelected(id, sel) }]

\* one render of AttackMonitor and AttackMap under filter f and selection
\* sel: the list's numberedAttacks, the map's mapped, the cards rendered
\* highlighted and the markers rendered with the enlarged icon
Render(articles, f, sel) ==
  LET num == Numbered(articles, f)
      mk == Markers(articles, f)
  IN [numberedAttacks |-> num,
      mapped |-> mk,
      highlighted |-> { id \in IdsOf(cardsOf(num)) : cardIsSelected(id, sel) },
      enlarged |-> { id \in IdsOf(mk) : markerIsSelected(id, sel) }]

Max(x, y) == IF x >= y THEN x ELSE y

\* ------------------------------------------------- recency and sparkline

\* Times are whole minutes.  An unparsable date (NaN) is None.
\* formatTimeAgo(isoDate, fetchedAt?) at time now: the text shown, as a unit
\* and a number
formatTimeAgo(now, isoDate, fetchedAt) ==
  IF isoDate = None
    THEN [unit |-> "Unknown", n |-> 0]
    ELSE LET diff == now - isoDate[1]
             effective == IF diff < 0 /\ fetchedAt # None
                            THEN now - fetchedAt[1]
                            ELSE diff
             minutes == effective
             hours == minutes \div 60
             days == hours \div 24
         IN IF minutes < 1 THEN [unit |-> "Just now", n |-> 0]
            ELSE IF minutes < 60 THEN [unit |-> "m ago", n |-> minutes]
            ELSE IF hours < 24 THEN [unit |-> "h ago", n |-> hours]
            ELSE IF days < 7 THEN [unit |-> "d ago", n |-> days]
            ELSE [unit |-> "date", n |-> isoDate[1]]

\* AttackCard: formatTimeAgo(article.published, article.fetched_at)
cardRecency(now, published, fetched_at) == formatTimeAgo(now, published, fetched_at)

\* popup of AttackMap: formatTimeAgo(attack.published)
popupRecency(now, published, fetched_at) == formatTimeAgo(now, published, None)

\* the time of rendering and the ages (minutes before it, negative in the
\* future) the published and fetched times are drawn from: around every
\* threshold of formatTimeAgo
Now == 20000
Ages == {-1500, -60, -1, 0, 1, 59, 60, 1439, 1440, 10079, 10080}
Times == { Now - age : age \in Ages }

\* a score of the highest colour band of the sparkline
BigScore == 30

\* threat histories, by their scores
Scores == (0..MaxScore) \cup {BigScore}
Histories == UNION { [1..n -> Scores] : n \in 0..MaxHistory }

\* Math.max(...historyScores, 1)
maxScore(historyScores) ==
  IF \E i \in DOMAIN historyScores : historyScores[i] >= 1
    THEN CHOOSE m \in { historyScores[i] : i \in DOMAIN historyScores } :
           \A i \in DOMAIN historyScores : historyScores[i] <= m
    ELSE 1

\* historyScores.slice(-168)
SparklineBars == 168
lastBars(historyScores) ==
  IF Len(historyScores) <= SparklineBars
    THEN historyScores
    ELSE SubSeq(historyScores, Len(historyScores) - SparklineBars + 1, Len(historyScores))

\* variant: the height has no minimum
barHeight_noMinimum(score, max) == [num |-> 40 * score, den |-> max]

\* Math.max(2, (score / maxScore) * 40), as the fraction num / den
barHeight(score, max) ==
  IF 40 * score >= 2 * max
    THEN [num |-> 40 * score, den |-> max]
    ELSE [num |-> 2, den |-> 1]

\* the sparkline of ThreatLevelDisplay: None when it is not rendered, else
\* the heights of its bars
sparkline(historyScores) ==
  IF Len(historyScores) > 1
    THEN Some([i \in DOMAIN lastBars(historyScores) |->
                 barHeight(lastBars(historyScores)[i], maxScore(historyScores))])
    ELSE None

\* ------------------------------------------------------------------ state

VARIABLES
  attackArticles,    \* AttackMonitor prop, fixed for the life of the page
  severityFilter,    \* useState<SeverityFilter>("all")
  selectedAttackId,  \* useState<string | null>(null)
  rendered,          \* output of the last render: numberedAttacks, AttackMap's mapped, highlighted cards, enlarged markers
  cardRefs,          \* keys of the cardRefs map
  mapView,           \* viewport of the Leaflet map (its animation target), None while no map is mounted
  lostView,          \* the viewport the map had when the placeholder replaced it, until the first interaction with the map shown again
  flying,            \* TRUE while the animation of a flyTo toward mapView is running
  openPopup,         \* id of the marker whose popup is open, or NULL
  lastEvent,         \* the last user interaction: kind and argument
  fx,                \* the side effects that interaction initiated in program order, the renders it caused, and what became of the viewport
  pre,               \* selection and filter right before that interaction
  twice,             \* Some(selection before the first) after two consecutive card clicks on one id
  widget             \* the recency text or sparkline rendered last, with its inputs

vars ==
  <<attackArticles, severityFilter, selectedAttackId, rendered, cardRefs, mapView,
    lostView, flying, openPopup, lastEvent, fx, pre, twice, widget>>

NoWidget == [fn |-> "none"]

NoFx ==
  [pageScroll |-> FALSE, listScroll |-> None, flyTo |-> None, toggled |-> FALSE,
   view |-> "same", order |-> <<>>, renders |-> <<>>, interrupted |-> FALSE]

InitialView == [center |-> InitialCenter, zoom |-> InitialZoom]

\* what an interaction did to the viewport: nothing, moved the viewport of
\* the displayed map, mounted a map or unmounted it
ViewChange(before, after) ==
  IF after = before THEN "same"
  ELSE IF before = None THEN "mounted"
  ELSE IF after = None THEN "unmounted"
  ELSE "moved"

\* --------------------------------------------------------------- handlers

\* variant: the click always selects
handleSelectFromList_noToggle(prev, id) == id

\* variant: the click clears whatever is selected
handleSelectFromList_anySelected(prev, id) == IF prev # NULL THEN NULL ELSE id

\* setSelectedAttackId((prev) => (prev === id ? null : id))
handleSelectFromList(prev, id) == IF prev = id THEN NULL ELSE id

\* variant: the map-side handler toggles like the list-side one
handleSelectFromMap_toggle(refs, id) ==
  [selected |-> IF selectedAttackId = id THEN NULL ELSE id,
   listScroll |-> IF id \in refs THEN Some([card |-> id, block |-> "center"]) ELSE None]

\* variant: the handler scrolls without checking that the handle exists
handleSelectFromMap_noHandleCheck(refs, id) ==
  [selected |-> id, listScroll |-> Some([card |-> id, block |-> "center"])]

\* setSelectedAttackId(id); el = cardRefs.current.get(id);
\* if (el) el.scrollIntoView({ block: "center" })
handleSelectFromMap(refs, id) ==
  [selected |-> id,
   listScroll |-> IF id \in refs THEN Some([card |-> id, block |-> "center"]) ELSE None]

\* setSelectedAttackId(id); mapRef.current?.scrollIntoView(start); the div
\* mapRef points at is always rendered
handleCircleClick(id) == [selected |-> id, pageScroll |-> TRUE]

\* variant: the tab clears the selection only when the filter value changes
severityTabOnClick_onlyOnChange(sev) ==
  [severityFilter |-> sev,
   selected |-> IF sev = severityFilter THEN selectedAttackId ELSE NULL]

\* variant: the tab sets the filter and leaves the selection
severityTabOnClick_keepsSelection(sev) ==
  [severityFilter |-> sev, selected |-> selectedAttackId]

\* onClick of a severity tab: setSeverityFilter(sev); setSelectedAttackId(null)
severityTabOnClick(sev) == [severityFilter |-> sev, selected |-> NULL]

\* variant: the badge's onClick lets the click bubble to the card
badgeStopsPropagation_missing == FALSE

\* e.stopPropagation() in the badge's onClick
badgeStopsPropagation == TRUE

\* variant: every card gets the onCircleClick prop
hasCircleClick_always(a) == TRUE

\* onCircleClick prop of a card: undefined without coordinates
hasCircleClick(a) == hasCoordinates(a)

\* click on the numbered badge of the card of article a: the badge's own
\* onClick, then the article's onClick unless propagation was stopped
badgeOnClick(prev, a) ==
  LET circle == hasCircleClick(a)
      s1 == IF circle THEN handleCircleClick(a).selected ELSE prev
      bubbles == ~badgeStopsPropagation
  IN [selected |-> IF bubbles THEN handleSelectFromList(s1, a) ELSE s1,
      pageScroll |-> circle /\ handleCircleClick(a).pageScroll,
      toggled |-> bubbles]

\* the Marker element has no event handler: a click only toggles its popup,
\* the onSelectAttack prop is never called
markerOnClick(prev, id) == prev

\* variant: the effect never flies
FlyToSelected_never(markers, selectedId, zoom) == None

\* variant: the effect flies to any selected article that has coordinates
FlyToSelected_anyCoordinates(markers, selectedId, zoom) ==
  IF selectedId # NULL /\ hasCoordinates(selectedId)
    THEN Some([center |-> <<lat(selectedId)[1], lng(selectedId)[1]>>,
               zoom |-> Max(zoom, FlyZoomThreshold)])
    ELSE None

\* variant: the effect waits for the running animation and drops the request
FlyToSelected_notWhileFlying(markers, selectedId, zoom) ==
  IF selectedId = NULL \/ flying
    THEN None
    ELSE LET hits == { i \in DOMAIN markers : markers[i].attack = selectedId }
         IN IF hits = {}
              THEN None
              ELSE LET na == markers[CHOOSE i \in hits : \A j \in hits : i <= j]
                   IN IF hasCoordinates(na.attack)
                        THEN Some([center |-> <<lat(na.attack)[1], lng(na.attack)[1]>>,
                                   zoom |-> Max(zoom, FlyZoomThreshold)])
                        ELSE None

\* variant: the effect flies to the threshold zoom whatever the current zoom
FlyToSelected_fixedZoom(markers, selectedId, zoom) ==
  IF selectedId = NULL
    THEN None
    ELSE LET hits == { i \in DOMAIN markers : markers[i].attack = selectedId }
         IN IF hits = {}
              THEN None
              ELSE LET na == markers[CHOOSE i \in hits : \A j \in hits : i <= j]
                   IN IF hasCoordinates(na.attack)
                        THEN Some([center |-> <<lat(na.attack)[1], lng(na.attack)[1]>>,
                                   zoom |-> FlyZoomThreshold])
                        ELSE None

\* body of the FlyToSelected effect: the flyTo it issues, if any
FlyToSelected(markers, selectedId, zoom) ==
  IF selectedId = NULL
    THEN None
    ELSE LET hits == { i \in DOMAIN markers : markers[i].attack = selectedId }
         IN IF hits = {}
              THEN None
              ELSE LET na == markers[CHOOSE i \in hits : \A j \in hits : i <= j]
                   IN IF hasCoordinates(na.attack)
                        THEN Some([center |-> <<lat(na.attack)[1], lng(na.attack)[1]>>,
                                   zoom |-> Max(zoom, FlyZoomThreshold)])
                        ELSE None

\* variant: every click renders, whether or not a cell changed value
Renders_always(f1, s1, f2, s2) == <<[filter |-> f2, selected |-> s2]>>

\* variant: every state cell a handler writes is rendered on its own, the
\* filter first
Renders_perUpdate(f1, s1, f2, s2) ==
  (IF f2 # f1 THEN <<[filter |-> f2, selected |-> s1]>> ELSE <<>>) \o
  (IF s2 # s1 THEN <<[filter |-> f2, selected |-> s2]>> ELSE <<>>)

\* The renders one click causes, by the state they show.  The handler runs
\* to its end before React renders: the set-state calls of one handler are
\* applied together, and nothing is rendered when no cell changed value.
Renders(f1, s1, f2, s2) ==
  IF f2 # f1 \/ s2 # s1
    THEN <<[filter |-> f2, selected |-> s2]>>
    ELSE <<>>

\* variant: the handler itself calls map.flyTo
EventOrder_flyInHandler(effects, rerender, fly) ==
  (IF effects.pageScroll \/ effects.listScroll # None
     THEN <<"scrollIntoView">> ELSE <<>>) \o
  (IF fly # None THEN <<"flyTo">> ELSE <<>>) \o
  <<"return">> \o
  (IF rerender THEN <<"render">> ELSE <<>>)

\* The calls of one click in program order: scrollIntoView is called in the
\* body of handleSelectFromMap / handleCircleClick, the handler returns,
\* React renders, and map.flyTo is called by the useEffect of FlyToSelected
\* when that render is committed.
EventOrder(effects, rerender, fly) ==
  (IF effects.pageScroll \/ effects.listScroll # None
     THEN <<"scrollIntoView">> ELSE <<>>) \o
  <<"return">> \o
  (IF rerender THEN <<"render">> ELSE <<>>) \o
  (IF fly # None THEN <<"flyTo">> ELSE <<>>)

\* variant: the ref callback never deletes an entry
cardRefsAfterCommit_neverDeletes(refs, oldCards, newCards) == refs \cup newCards

\* ref callbacks of one commit: the callbacks of the previous render are
\* called with null, those of the new render with the mounted element
cardRefsAfterCommit(refs, oldCards, newCards) == (refs \ oldCards) \cup newCards

\* What the commit following a handler does, given the filter f2 and the
\* selection s2 the handler left.  React re-renders only when a state cell
\* changed; then selectedId or the identity of numberedAttacks changed too,
\* so the FlyToSelected effect runs whenever a map is mounted.  The map is
\* unmounted while mapped is empty and mounts with the initial viewport.
Commit(f2, s2) ==
  LET renders == Renders(severityFilter, selectedAttackId, f2, s2)
      rerender == renders # <<>>
      out == IF rerender THEN Render(attackArticles, f2, s2) ELSE rendered
      markers == out.mapped
      mounted == IF markers = <<>>
                   THEN None
                   ELSE IF mapView = None THEN Some(InitialView) ELSE mapView
      fly == IF rerender /\ mounted # None
               THEN FlyToSelected(markers, s2, mounted[1].zoom)
               ELSE None
  IN [out |-> out,
      refs |-> IF rerender
                 THEN cardRefsAfterCommit(cardRefs,
                        IdsOf(cardsOf(rendered.numberedAttacks)),
                        IdsOf(cardsOf(out.numberedAttacks)))
                 ELSE cardRefs,
      view |-> IF fly # None THEN fly ELSE mounted,
      markerIds |-> IdsOf(markers),
      fly |-> fly,
      renders |-> renders]

\* the part every interaction shares: new state cells, commit, event log;
\* popup is the open popup the handler left, which is closed with its marker
Step(kind, arg, f2, s2, effects, tw, popup) ==
  \E c \in {Commit(f2, s2)} :
     /\ severityFilter' = f2
     /\ selectedAttackId' = s2
     /\ rendered' = c.out
     /\ cardRefs' = c.refs
     /\ mapView' = c.view
     /\ lostView' = IF mapView # None /\ c.view = None THEN mapView
                    ELSE IF mapView = None THEN lostView
                    ELSE None
     /\ flying' = IF c.fly # None THEN TRUE
                  ELSE IF c.view = None \/ mapView = None THEN FALSE
                  ELSE flying
     /\ openPopup' = IF popup \in c.markerIds THEN popup ELSE NULL
     /\ lastEvent' = [kind |-> kind, arg |-> arg]
     /\ fx' = [effects EXCEPT !.flyTo = c.fly,
                               !.view = ViewChange(mapView, c.view),
                               !.order = EventOrder(effects, c.renders # <<>>, c.fly),
                               !.renders = c.renders,
                               !.interrupted = flying /\ c.fly # None]
     /\ pre' = [selected |-> selectedAttackId, filter |-> severityFilter]
     /\ twice' = tw
     /\ UNCHANGED <<attackArticles, widget>>

\* ---------------------------------------------------------------- actions

Init ==
  /\ attackArticles \in IncidentLists
  /\ severityFilter = "all"
  /\ selectedAttackId = NULL
  /\ rendered = Render(attackArticles, "all", NULL)
  /\ cardRefs = IdsOf(cardsOf(rendered.numberedAttacks))
  /\ mapView = IF rendered.mapped = <<>> THEN None ELSE Some(InitialView)
  /\ lostView = None
  /\ flying = FALSE
  /\ openPopup = NULL
  /\ lastEvent = [kind |-> "init", arg |-> NULL]
  /\ fx = NoFx
  /\ pre = [selected |-> NULL, filter |-> "all"]
  /\ twice = None
  /\ widget = NoWidget

\* click on the body of the card of id
ListClick(id) ==
  /\ id \in IdsOf(cardsOf(rendered.numberedAttacks))
  /\ Step("card", id, severityFilter,
          handleSelectFromList(selectedAttackId, id),
          [NoFx EXCEPT !.toggled = TRUE],
          IF lastEvent = [kind |-> "card", arg |-> id]
            THEN Some(pre.selected) ELSE None,
          openPopup)

\* click on the numbered badge of the card of id
BadgeClick(id) ==
  /\ id \in IdsOf(cardsOf(rendered.numberedAttacks))
  /\ LET r == badgeOnClick(selectedAttackId, id)
     IN Step("badge", id, severityFilter, r.selected,
             [NoFx EXCEPT !.pageScroll = r.pageScroll, !.toggled = r.toggled],
             None, openPopup)

\* click on the marker of id
MarkerClick(id) ==
  /\ id \in IdsOf(rendered.mapped)
  /\ Step("marker", id, severityFilter, markerOnClick(selectedAttackId, id),
          NoFx, None, IF openPopup = id THEN NULL ELSE id)

\* click on "Show in list" in the open popup of the marker of id
PopupShowInList(id) ==
  /\ openPopup = id
  /\ id \in IdsOf(rendered.mapped)
  /\ LET r == handleSelectFromMap(cardRefs, id)
     IN Step("showInList", id, severityFilter, r.selected,
             [NoFx EXCEPT !.listScroll = r.listScroll], None, openPopup)

\* click on the severity tab sev
FilterClick(sev) ==
  LET r == severityTabOnClick(sev)
  IN Step("filter", sev, r.severityFilter, r.selected, NoFx, None, openPopup)

\* the user zooms the map one level with its zoom control, while the map
\* is at rest
UserZoom(z) ==
  /\ mapView # None
  /\ ~flying
  /\ flying' = flying
  /\ lostView' = None
  /\ z \in ZoomLevels
  /\ z - mapView[1].zoom \in {-1, 1}
  /\ severityFilter' = severityFilter
  /\ selectedAttackId' = selectedAttackId
  /\ rendered' = rendered
  /\ cardRefs' = cardRefs
  /\ openPopup' = openPopup
  /\ mapView' = Some([mapView[1] EXCEPT !.zoom = z])
  /\ lastEvent' = [kind |-> "zoom", arg |-> NULL]
  /\ fx' = [NoFx EXCEPT !.view = ViewChange(mapView, mapView')]
  /\ pre' = [selected |-> selectedAttackId, filter |-> severityFilter]
  /\ twice' = None
  /\ UNCHANGED <<attackArticles, widget>>

\* the animation of the last flyTo reaches its target (Leaflet's moveend);
\* no handler of the page listens to it
MoveEnd ==
  /\ flying
  /\ flying' = FALSE
  /\ UNCHANGED <<attackArticles, severityFilter, selectedAttackId, rendered, cardRefs,
                 mapView, lostView, openPopup, lastEvent, fx, pre, twice, widget>>

Next ==
  \/ \E id \in AllIds : ListClick(id)
  \/ \E id \in AllIds : BadgeClick(id)
  \/ \E id \in AllIds : MarkerClick(id)
  \/ \E id \in AllIds : PopupShowInList(id)
  \/ \E sev \in SeverityFilterSet : FilterClick(sev)
  \/ \E z \in ZoomLevels : UserZoom(z)
  \/ MoveEnd

Spec == Init /\ [][Next]_vars

\* ------------------------------------ the components under any selection
\*
\* AttackMonitor's render, AttackMap and handleSelectFromMap taken on their
\* own: the selection cell holds any identifier, also one the current
\* filter does not list, and onScrollToCard is called with any identifier.

\* first render and mount under filter and selection as found; the
\* FlyToSelected effect runs on mount
AnySelectionInit ==
  /\ attackArticles \in IncidentLists
  /\ severityFilter \in SeverityFilterSet
  /\ selectedAttackId \in AllIds \cup {NULL}
  /\ rendered = Render(attackArticles, severityFilter, selectedAttackId)
  /\ cardRefs = IdsOf(cardsOf(rendered.numberedAttacks))
  /\ \E fly \in {IF rendered.mapped = <<>>
                    THEN None
                    ELSE FlyToSelected(rendered.mapped, selectedAttackId, InitialZoom)} :
       /\ mapView = IF rendered.mapped = <<>> THEN None
                    ELSE IF fly # None THEN fly ELSE Some(InitialView)
       /\ flying = (fly # None)
       /\ lostView = None
       /\ fx = [NoFx EXCEPT !.flyTo = fly]
  /\ openPopup = NULL
  /\ lastEvent = [kind |-> "init", arg |-> NULL]
  /\ pre = [selected |-> selectedAttackId, filter |-> severityFilter]
  /\ twice = None
  /\ widget = NoWidget

\* onScrollToCard(id) for any identifier
OnScrollToCard(id) ==
  \E r \in {handleSelectFromMap(cardRefs, id)} :
    Step("showInList", id, severityFilter, r.selected,
         [NoFx EXCEPT !.listScroll = r.listScroll], None, openPopup)

AnySelectionNext == \E id \in AllIds : OnScrollToCard(id)

SpecAnySelection == AnySelectionInit /\ [][AnySelectionNext]_vars

\* ------------------------------------------ recency texts and sparkline
\*
\* The pure renderings: the recency of one incident on its card and in its
\* popup, and the sparkline of one threat history.  The monitor shows an
\* empty incident list meanwhile.

WidgetInit ==
  /\ Init
  /\ attackArticles = <<>>

\* an incident published and fetched at the given times is rendered at Now
RenderRecency(published, fetched_at) ==
  /\ widget' = [fn |-> "recency", published |-> published, fetched_at |-> fetched_at,
                card |-> cardRecency(Now, published, fetched_at),
                popup |-> popupRecency(Now, published, fetched_at)]
  /\ UNCHANGED <<attackArticles, severityFilter, selectedAttackId, rendered, cardRefs,
                 mapView, lostView, flying, openPopup, lastEvent, fx, pre, twice>>

\* ThreatLevelDisplay renders a threat level with the given history scores
RenderSparkline(historyScores) ==
  /\ widget' = [fn |-> "sparkline", history |-> historyScores,
                bars |-> sparkline(historyScores)]
  /\ UNCHANGED <<attackArticles, severityFilter, selectedAttackId, rendered, cardRefs,
                 mapView, lostView, flying, openPopup, lastEvent, fx, pre, twice>>

WidgetNext ==
  \/ \E published \in {None} \cup { Some(t) : t \in Times } :
       \E fetched_at \in {None} \cup { Some(t) : t \in Times } :
         RenderRecency(published, fetched_at)
  \/ \E historyScores \in Histories : RenderSparkline(historyScores)

SpecWidgets == WidgetInit /\ [][WidgetNext]_vars

TypeOK ==
  /\ severityFilter \in SeverityFilterSet
  /\ selectedAttackId \in AllIds \cup {NULL}
  /\ cardRefs \subseteq AllIds
  /\ openPopup \in AllIds \cup {NULL}
  /\ mapView = None \/ mapView[1].zoom \in ZoomLevels
  /\ flying \in BOOLEAN
  /\ flying => mapView # None

\* ----------------------------------------------------------------- claims

MarkerIds == IdsOf(rendered.mapped)

\* C1: under every severity filter the numbered list has the length of the
\* filtered incident list and its indices are exactly 1..n in list order;
\* every filtered incident is numbered, with or without coordinates.
C1_NumberingContiguous ==
  /\ \A f \in SeverityFilterSet :
       LET filt == filtered(attackArticles, f)
           num == numberedAttacks(filt)
       IN /\ Len(num) = Len(filt)
          /\ \A p \in 1..Len(filt) : num[p].index = p /\ num[p].attack = filt[p]
  /\ LET filt == filtered(attackArticles, severityFilter)
         num == rendered.numberedAttacks
     IN /\ DOMAIN num = 1..Len(filt)
        /\ \A p \in 1..Len(filt) : num[p].index = p /\ num[p].attack = filt[p]

\* under a severity filter an incident without coordinates, second in the
\* full list, is numbered 1
C1_Witness ==
  /\ severityFilter # "all"
  /\ Len(attackArticles) >= 2
  /\ \E p \in DOMAIN rendered.numberedAttacks :
       /\ rendered.numberedAttacks[p].index = 1
       /\ ~hasCoordinates(rendered.numberedAttacks[p].attack)
       /\ attackArticles[2] = rendered.numberedAttacks[p].attack

\* C2: every marker carries the number of the list card of the same
\* incident under the current filter.
C2_MarkerNumberIsListNumber ==
  LET cards == cardsOf(rendered.numberedAttacks)
  IN \A i \in DOMAIN rendered.mapped :
       LET m == rendered.mapped[i]
       IN /\ \E j \in DOMAIN cards : cards[j].attack = m.attack
          /\ \A j \in DOMAIN cards :
               cards[j].attack = m.attack => cards[j].index = m.index

\* a marker whose number is not its position among the markers
C2_Witness ==
  \E i \in DOMAIN rendered.mapped : rendered.mapped[i].index # i

\* C3: after a click on a severity tab nothing is selected.
C3_FilterChangeUnselects ==
  lastEvent.kind = "filter" => selectedAttackId = NULL

\* something was selected under "all", then the tab "low" was clicked
C3_Witness ==
  /\ lastEvent = [kind |-> "filter", arg |-> "low"]
  /\ pre.filter = "all"
  /\ pre.selected # NULL
  /\ selectedAttackId = NULL

\* C4: a click on the body of the card of id unselects when id was
\* selected and selects id otherwise.
C4_ListClickToggles ==
  lastEvent.kind = "card" =>
    selectedAttackId = IF pre.selected = lastEvent.arg THEN NULL ELSE lastEvent.arg

\* a card click moved the selection from another incident to this one
C4_Witness ==
  /\ lastEvent.kind = "card"
  /\ pre.selected \notin {NULL, lastEvent.arg}
  /\ selectedAttackId = lastEvent.arg

\* C5 as stated: after two consecutive card clicks on one id nothing is
\* selected.
C5_TwiceUnselected ==
  twice # None => selectedAttackId = NULL

\* C5 as amended: two consecutive card clicks on one id leave that id
\* selected if it was selected before the first click, and nothing selected
\* otherwise.
C5_TwiceRestores ==
  twice # None =>
    selectedAttackId = IF twice[1] = lastEvent.arg THEN lastEvent.arg ELSE NULL

\* two consecutive clicks on a card, another incident selected before them
C5_Witness ==
  /\ twice # None
  /\ twice[1] \notin {NULL, lastEvent.arg}
  /\ lastEvent.kind = "card"
  /\ selectedAttackId = NULL

\* C6 as stated: after a click on the marker of id, id is selected.
C6_MarkerClickSelects ==
  lastEvent.kind = "marker" => selectedAttackId = lastEvent.arg

\* C7: a click on the badge of a card with coordinates selects the
\* incident, scrolls the page to the map and does not run the card's toggle.
C7_BadgeClickFocuses ==
  (lastEvent.kind = "badge" /\ hasCoordinates(lastEvent.arg)) =>
    /\ selectedAttackId = lastEvent.arg
    /\ fx.pageScroll
    /\ ~fx.toggled

\* the badge of the selected incident was clicked again
C7_Witness ==
  /\ lastEvent.kind = "badge"
  /\ hasCoordinates(lastEvent.arg)
  /\ pre.selected = lastEvent.arg
  /\ selectedAttackId = lastEvent.arg
  /\ fx.pageScroll

\* C8: "Show in list" in the popup of marker id selects id and scrolls the
\* card of id into view, centered.
C8_ShowInListSelectsAndScrolls ==
  lastEvent.kind = "showInList" =>
    /\ selectedAttackId = lastEvent.arg
    /\ fx.listScroll = Some([card |-> lastEvent.arg, block |-> "center"])

\* "Show in list" was used while the incident was already selected
C8_Witness ==
  /\ lastEvent.kind = "showInList"
  /\ pre.selected = lastEvent.arg
  /\ selectedAttackId = lastEvent.arg
  /\ fx.listScroll # None

\* C9 as stated: a card click initiates no scroll and no viewport change.
C9_CardClickNoViewportChange ==
  lastEvent.kind = "card" =>
    /\ ~fx.pageScroll
    /\ fx.listScroll = None
    /\ fx.flyTo = None
    /\ fx.view = "same"

\* C9 as amended: a card click initiates no scroll; it initiates a fly-to
\* exactly when it selects an incident that has a marker, and leaves the
\* viewport alone otherwise.
C9_CardClickFliesOnlyToMarker ==
  lastEvent.kind = "card" =>
    /\ ~fx.pageScroll
    /\ fx.listScroll = None
    /\ fx.flyTo # None <=>
         (selectedAttackId = lastEvent.arg /\ lastEvent.arg \in MarkerIds)
    /\ fx.flyTo = None => fx.view = "same"
    /\ fx.flyTo # None => mapView = fx.flyTo

\* a card click selected an incident that has a marker
C9_Witness ==
  /\ lastEvent.kind = "card"
  /\ selectedAttackId = lastEvent.arg
  /\ lastEvent.arg \in MarkerIds
  /\ fx.flyTo # None
  /\ fx.view = "moved"

C11_FlyToTarget ==
  [][(selectedAttackId' # selectedAttackId
        /\ selectedAttackId' \in IdsOf(rendered'.mapped)) =>
       /\ mapView # None
       /\ fx'.flyTo # None
       /\ mapView' = fx'.flyTo
       /\ LET current == mapView[1].zoom
              target == fx'.flyTo[1]
              incident == Catalogue[selectedAttackId']
          IN /\ target.center = <<incident.lat[1], incident.lng[1]>>
             /\ target.zoom = IF current >= 7 THEN current ELSE 7
             /\ target.zoom >= current
             /\ target.zoom > current <=> current < 7]_vars

\* a fly-to started from a zoom above the threshold and kept that zoom
C11_Witness ==
  /\ selectedAttackId # pre.selected
  /\ selectedAttackId \in MarkerIds
  /\ fx.flyTo # None
  /\ fx.flyTo[1].zoom > FlyZoomThreshold
  /\ mapView = fx.flyTo

\* C12: at most one card is rendered highlighted and at most one marker
\* enlarged; a card is highlighted iff its id is the selection, a marker is
\* enlarged iff its id is the selection, so the marker of an incident is
\* enlarged exactly when its card is highlighted.
C12_ViewsAgree ==
  LET cards == IdsOf(cardsOf(rendered.numberedAttacks))
  IN /\ rendered.highlighted \subseteq cards
     /\ rendered.enlarged \subseteq MarkerIds
     /\ Cardinality(rendered.highlighted) <= 1
     /\ Cardinality(rendered.enlarged) <= 1
     /\ \A id \in cards : id \in rendered.highlighted <=> id = selectedAttackId
     /\ \A id \in MarkerIds :
          /\ id \in rendered.enlarged <=> id = selectedAttackId
          /\ id \in rendered.enlarged <=> id \in rendered.highlighted

\* two markers are shown, one of them enlarged, its card highlighted
C12_Witness ==
  /\ Cardinality(MarkerIds) = 2
  /\ selectedAttackId \in MarkerIds
  /\ rendered.enlarged = {selectedAttackId}
  /\ rendered.highlighted = {selectedAttackId}

\* C13: the filter "all" yields the whole incident list; a severity filter
\* yields exactly the incidents whose classification has that severity
\* (none without classification), in the relative order of the input; the
\* rendered list is that of the current filter.
C13_FilterExact ==
  /\ \A f \in SeverityFilterSet :
       LET r == filtered(attackArticles, f)
       IN /\ f = "all" => r = attackArticles
          /\ f # "all" =>
               /\ \A i \in DOMAIN r :
                    /\ Catalogue[r[i]].classification # None
                    /\ Catalogue[r[i]].classification[1].severity = f
               /\ \A p \in DOMAIN attackArticles :
                    LET c == Catalogue[attackArticles[p]].classification
                    IN (c # None /\ c[1].severity = f) =>
                         \E i \in DOMAIN r : r[i] = attackArticles[p]
          /\ \A i, j \in DOMAIN r :
               i < j => \E p, q \in DOMAIN attackArticles :
                          p < q /\ attackArticles[p] = r[i] /\ attackArticles[q] = r[j]
  /\ [i \in DOMAIN rendered.numberedAttacks |-> rendered.numberedAttacks[i].attack]
       = filtered(attackArticles, severityFilter)

\* a severity filter is active, the list begins with an incident without
\* classification and only the incident after it is shown
C13_Witness ==
  /\ severityFilter # "all"
  /\ Len(attackArticles) = 2
  /\ classification(attackArticles[1]) = None
  /\ Len(rendered.numberedAttacks) = 1
  /\ rendered.numberedAttacks[1].attack = attackArticles[2]

\* C14: filtering is idempotent, filter(filter(S, F), F) = filter(S, F), so
\* is the numbering built on it, and the numbered list kept from the last
\* render equals the one derived anew from the same list and filter.
C14_FilterIdempotent ==
  /\ \A f \in SeverityFilterSet :
       LET once == filtered(attackArticles, f)
       IN /\ filtered(once, f) = once
          /\ Numbered(once, f) = Numbered(attackArticles, f)
          /\ numberedAttacks(once) = Numbered(attackArticles, f)
  /\ rendered.numberedAttacks = Numbered(attackArticles, severityFilter)

\* the tab of the active severity filter was clicked again while the list
\* shows two incidents
C14_Witness ==
  /\ lastEvent.kind = "filter"
  /\ lastEvent.arg # "all"
  /\ pre.filter = lastEvent.arg
  /\ severityFilter = lastEvent.arg
  /\ Len(rendered.numberedAttacks) = 2

\* C15: a step that leaves the filter value alone (card click, badge click,
\* "Show in list", marker click, zoom, click on the active tab) leaves every
\* incident's number alone, in the list and on the map; a step that changes
\* the filter numbers the new list from 1.
C15_NumbersStable ==
  [][/\ severityFilter' = severityFilter =>
          /\ rendered'.numberedAttacks = rendered.numberedAttacks
          /\ rendered'.mapped = rendered.mapped
     /\ severityFilter' # severityFilter =>
          \A i \in DOMAIN rendered'.numberedAttacks :
            rendered'.numberedAttacks[i].index = i]_vars

\* a selection transition selected the incident numbered 2, which is still
\* numbered 2
C15_Witness ==
  /\ lastEvent.kind \in {"card", "badge", "showInList"}
  /\ pre.filter = severityFilter
  /\ selectedAttackId # pre.selected
  /\ Len(rendered.numberedAttacks) = 2
  /\ rendered.numberedAttacks[2] = [attack |-> selectedAttackId, index |-> 2]

C17_OneCardPerNumbered ==
  LET cards == cardsOf(rendered.numberedAttacks)
  IN /\ Len(cards) = Len(rendered.numberedAttacks)
     /\ { cards[i].index : i \in DOMAIN cards } = 1..Len(rendered.numberedAttacks)

\* C18: a click on the badge of a card whose incident has no coordinates
\* leaves the selection as it was (not set, not toggled) and initiates no
\* scroll, no fly-to and no change of the viewport.
C18_BadgeClickInert ==
  (lastEvent.kind = "badge"
     /\ (Catalogue[lastEvent.arg].lat = None \/ Catalogue[lastEvent.arg].lng = None)) =>
    /\ selectedAttackId = pre.selected
    /\ ~fx.toggled
    /\ ~fx.pageScroll
    /\ fx.listScroll = None
    /\ fx.flyTo = None
    /\ fx.view = "same"

\* the badge of an incident without coordinates was clicked while another
\* incident, shown on the map, was selected
C18_Witness ==
  /\ lastEvent.kind = "badge"
  /\ ~hasCoordinates(lastEvent.arg)
  /\ pre.selected \in MarkerIds
  /\ selectedAttackId = pre.selected
  /\ mapView # None

\* C19 as stated: when a badge click or "Show in list" initiates both a
\* scroll and a fly-to, both are initiated before the click handler returns.
C19_BothInsideHandler ==
  (lastEvent.kind \in {"badge", "showInList"}
     /\ (fx.pageScroll \/ fx.listScroll # None)
     /\ fx.flyTo # None) =>
    \E r \in DOMAIN fx.order :
      /\ fx.order[r] = "return"
      /\ \A i \in DOMAIN fx.order :
           fx.order[i] \in {"scrollIntoView", "flyTo"} => i < r

\* C19 as amended: when a badge click or "Show in list" initiates both a
\* scroll and a fly-to, the scroll is initiated before the click handler
\* returns and the fly-to after it returned, by the effect of the render that
\* follows; both belong to that one click, no other user event comes between.
C19_ScrollInHandlerFlyInEffect ==
  (lastEvent.kind \in {"badge", "showInList"}
     /\ (fx.pageScroll \/ fx.listScroll # None)
     /\ fx.flyTo # None) =>
    /\ \E i \in DOMAIN fx.order : fx.order[i] = "scrollIntoView"
    /\ \E i \in DOMAIN fx.order : fx.order[i] = "flyTo"
    /\ \E r \in DOMAIN fx.order :
         /\ fx.order[r] = "return"
         /\ \A i \in DOMAIN fx.order :
              /\ fx.order[i] = "scrollIntoView" => i < r
              /\ fx.order[i] = "flyTo" =>
                   \E j \in DOMAIN fx.order : r < j /\ j < i /\ fx.order[j] = "render"
    /\ mapView = fx.flyTo

\* "Show in list" scrolled the card into view and started a fly-to
C19_Witness ==
  /\ lastEvent.kind = "showInList"
  /\ fx.listScroll # None
  /\ fx.flyTo # None
  /\ fx.order = <<"scrollIntoView", "return", "render", "flyTo">>

\* C20: a click on a severity tab writes the filter and clears the selection
\* in one step: every render the click causes shows the clicked filter with
\* nothing selected, none shows the new filter with the selection of before
\* the click, and afterwards no card is highlighted and no marker enlarged.
C20_FilterClickAtomic ==
  lastEvent.kind = "filter" =>
    /\ severityFilter = lastEvent.arg
    /\ selectedAttackId = NULL
    /\ Len(fx.renders) <= 1
    /\ \A i \in DOMAIN fx.renders :
         /\ fx.renders[i] = [filter |-> lastEvent.arg, selected |-> NULL]
         /\ ~(pre.selected # NULL /\ fx.renders[i].selected = pre.selected)
    /\ rendered.highlighted = {}
    /\ rendered.enlarged = {}

\* the tab of another filter was clicked while an incident was selected
\* that the new filter still lists
C20_Witness ==
  /\ lastEvent.kind = "filter"
  /\ pre.filter # lastEvent.arg
  /\ pre.selected # NULL
  /\ pre.selected \in IdsOf(cardsOf(rendered.numberedAttacks))
  /\ Len(fx.renders) = 1
  /\ selectedAttackId = NULL

\* C21: under an unchanged filter a step that changes the selection to an
\* incident with a marker starts a fly-to toward that incident, also while
\* the animation of an earlier fly-to is running, and the viewport's target
\* is that incident's coordinates; any other step keeps the target's centre
\* (nothing is queued: the end of an animation starts no other).  So the
\* target is the coordinates of the most recently selected marker incident.
C21_LastWriteWins ==
  /\ [](selectedAttackId \in MarkerIds =>
          /\ mapView # None
          /\ mapView[1].center = <<Catalogue[selectedAttackId].lat[1],
                                   Catalogue[selectedAttackId].lng[1]>>)
  /\ [][severityFilter' = severityFilter =>
          IF selectedAttackId' # selectedAttackId
               /\ selectedAttackId' \in IdsOf(rendered'.mapped)
            THEN /\ fx'.flyTo # None
                 /\ mapView' = fx'.flyTo
                 /\ mapView'[1].center = <<Catalogue[selectedAttackId'].lat[1],
                                           Catalogue[selectedAttackId'].lng[1]>>
                 /\ flying'
            ELSE \/ mapView = None /\ mapView' = None
                 \/ /\ mapView # None
                    /\ mapView' # None
                    /\ mapView'[1].center = mapView[1].center
                    /\ flying' => flying]_vars

\* a fly-to toward a second incident was started while the animation toward
\* the first was running
C21_Witness ==
  /\ fx.interrupted
  /\ flying
  /\ pre.selected \in MarkerIds
  /\ selectedAttackId \in MarkerIds \ {pre.selected}
  /\ mapView = fx.flyTo
  /\ mapView[1].center = <<lat(selectedAttackId)[1], lng(selectedAttackId)[1]>>

\* C22: a trigger from the map (marker click, "Show in list") for the
\* incident that is already selected leaves it selected, causes no render,
\* initiates no fly-to and leaves the viewport where it was.
C22_RetriggerNoSecondFly ==
  (lastEvent.kind \in {"marker", "showInList"} /\ pre.selected = lastEvent.arg) =>
    /\ selectedAttackId = lastEvent.arg
    /\ fx.renders = <<>>
    /\ fx.flyTo = None
    /\ ~fx.interrupted
    /\ fx.view = "same"

\* "Show in list" was used for the selected incident after the user had
\* zoomed out below the threshold: the map stays zoomed out
C22_Witness ==
  /\ lastEvent.kind = "showInList"
  /\ pre.selected = lastEvent.arg
  /\ selectedAttackId = lastEvent.arg
  /\ mapView # None
  /\ mapView[1].zoom < FlyZoomThreshold
  /\ fx.flyTo = None

\* C23 (components under any selection): while the selection is an
\* identifier the current filter does not list, no card is highlighted, no
\* marker is enlarged, and the trigger that left it selected initiated no
\* fly-to and no scroll and left the viewport alone: the lookups find
\* nothing and nothing else happens.
C23_StaleSelectionInert ==
  (selectedAttackId # NULL
     /\ selectedAttackId \notin IdsOf(Numbered(attackArticles, severityFilter))) =>
    /\ rendered.highlighted = {}
    /\ rendered.enlarged = {}
    /\ FlyToSelected(rendered.mapped, selectedAttackId, InitialZoom) = None
    /\ selectedAttackId \notin cardRefs
    /\ fx.flyTo = None
    /\ ~fx.interrupted
    /\ lastEvent.arg = selectedAttackId =>
         /\ fx.listScroll = None
         /\ ~fx.pageScroll
         /\ fx.view = "same"

\* onScrollToCard was called for an attack with coordinates that the list
\* does not hold, while the map shows the marker of another incident
C23_Witness ==
  /\ lastEvent.kind = "showInList"
  /\ selectedAttackId = lastEvent.arg
  /\ selectedAttackId \notin IdsOf(rendered.numberedAttacks)
  /\ hasCoordinates(selectedAttackId)
  /\ isAttack(selectedAttackId)
  /\ mapView # None
  /\ fx.listScroll = None
  /\ fx.flyTo = None

\* C24 as stated: every marker has the colour of its incident's severity:
\* major red, high orange, medium yellow, low green.
C24_MarkerColoredBySeverity ==
  LET palette == "major" :> "#ef4444" @@ "high" :> "#f97316" @@
                 "medium" :> "#eab308" @@ "low" :> "#22c55e"
  IN /\ \A sev \in Severities :
          createNumberedIcon(1, sev, FALSE).color = palette[sev]
     /\ \A i \in DOMAIN rendered.mapped :
          markerIcon(rendered.mapped[i], selectedAttackId).color
            = palette[Catalogue[rendered.mapped[i].attack].classification[1].severity]

\* C25 as stated (recency texts): for an incident published in the future
\* and fetched in the past, the card and the popup both show the time since
\* it was fetched, never a text computed from a negative duration.
C25_RecencyFromFetchTime ==
  (widget.fn = "recency"
     /\ widget.published # None /\ widget.fetched_at # None
     /\ widget.published[1] > Now /\ widget.fetched_at[1] <= Now) =>
    LET d == Now - widget.fetched_at[1]
        fromFetch(r) ==
          IF d < 1 THEN r = [unit |-> "Just now", n |-> 0]
          ELSE IF d < 60 THEN r = [unit |-> "m ago", n |-> d]
          ELSE IF d \div 60 < 24 THEN r = [unit |-> "h ago", n |-> d \div 60]
          ELSE IF d \div 1440 < 7 THEN r = [unit |-> "d ago", n |-> d \div 1440]
          ELSE r.unit = "date"
    IN fromFetch(widget.card) /\ fromFetch(widget.popup)

\* C26 (sparkline): the sparkline is rendered iff the history has at least
\* two points; rendered, it has one bar per point, each of height
\* max(2, 40 * score / maxScore) with maxScore the greatest of 1 and all
\* scores, so between 2 and 40.
C26_SparklineBars ==
  widget.fn = "sparkline" =>
    LET h == widget.history
        top == CHOOSE m \in {1} \cup { h[i] : i \in DOMAIN h } :
                 \A x \in {1} \cup { h[i] : i \in DOMAIN h } : x <= m
    IN /\ widget.bars # None <=> Len(h) >= 2
       /\ widget.bars # None =>
            /\ Len(widget.bars[1]) = Len(h)
            /\ \A i \in DOMAIN h :
                 LET bar == widget.bars[1][i]
                 IN /\ bar.den >= 1
                    \* bar = 40 * score / top when that is at least 2, else 2
                    /\ IF 40 * h[i] >= 2 * top
                         THEN bar.num * top = 40 * h[i] * bar.den
                         ELSE bar.num = 2 * bar.den
                    /\ 2 * bar.den <= bar.num
                    /\ bar.num <= 40 * bar.den

\* a history of three points with a zero score, a small score and a score
\* twenty times greater: two bars of the minimum height and one of full height
C26_Witness ==
  /\ widget.fn = "sparkline"
  /\ widget.history = <<0, 1, BigScore>>
  /\ widget.bars # None
  /\ widget.bars[1][1] = [num |-> 2, den |-> 1]
  /\ widget.bars[1][2] = [num |-> 2, den |-> 1]
  /\ widget.bars[1][3] = [num |-> 40 * BigScore, den |-> BigScore]

\* C27: whenever an incident is selected, it is an incident of the current
\* filtered, numbered list, it has a classification and its card is shown.
C27_SelectionNeverStale ==
  selectedAttackId # NULL =>
    /\ selectedAttackId \in IdsOf(Numbered(attackArticles, severityFilter))
    /\ selectedAttackId \in IdsOf(rendered.numberedAttacks)
    /\ Catalogue[selectedAttackId].classification # None
    /\ selectedAttackId \in IdsOf(cardsOf(rendered.numberedAttacks))

\* under a severity filter that hides part of the list an incident was
\* selected after another one
C27_Witness ==
  /\ severityFilter # "all"
  /\ Len(rendered.numberedAttacks) < Len(attackArticles)
  /\ selectedAttackId # NULL
  /\ pre.selected # NULL
  /\ pre.filter = severityFilter
  /\ lastEvent.kind \in {"card", "badge", "showInList"}

\* C28: after every click on a severity tab nothing is selected; when the
\* tab is the one of the active filter, the filter value and the numbered
\* list are as before and no card is highlighted.
C28_TabClickAlwaysUnselects ==
  lastEvent.kind = "filter" =>
    /\ selectedAttackId = NULL
    /\ pre.filter = lastEvent.arg =>
         /\ severityFilter = pre.filter
         /\ rendered.numberedAttacks = Numbered(attackArticles, pre.filter)
         /\ rendered.highlighted = {}
         /\ rendered.enlarged = {}

\* the tab of the active filter was clicked while an incident was selected
C28_Witness ==
  /\ lastEvent.kind = "filter"
  /\ pre.filter = lastEvent.arg
  /\ pre.selected # NULL
  /\ pre.selected \in IdsOf(rendered.numberedAttacks)
  /\ selectedAttackId = NULL
  /\ fx.renders = <<[filter |-> pre.filter, selected |-> NULL]>>

C30_CardRefsAreRenderedCards ==
  /\ cardRefs = IdsOf(cardsOf(rendered.numberedAttacks))
  /\ cardRefs = { a \in IdsOf(Numbered(attackArticles, severityFilter)) :
                    Catalogue[a].classification # None }
  /\ MarkerIds \subseteq cardRefs
  /\ lastEvent.kind = "showInList" =>
       /\ lastEvent.arg \in cardRefs
       /\ fx.listScroll # None
       /\ fx.listScroll[1].card = lastEvent.arg

\* after a change of filter removed a card, "Show in list" of a marker
\* found the handle of its card
C30_Witness ==
  /\ lastEvent.kind = "showInList"
  /\ severityFilter # "all"
  /\ \E a \in IdsOf(cardsOf(Numbered(attackArticles, "all"))) : a \notin cardRefs
  /\ lastEvent.arg \in cardRefs
  /\ fx.listScroll = Some([card |-> lastEvent.arg, block |-> "center"])

====
